---- MODULE Spec2Model ----
(***************************************************************************)
(* A model of lib/broccoli/ember-app.js: the EmberApp constructor, the     *)
(* asset import contract, the memoized tree accessors, the addon hook      *)
(* pipeline, contentFor and the final assembly (toTree).                   *)
(*                                                                         *)
(* JavaScript strings are modelled as sequences of tokens: a token is a    *)
(* name, or one of the characters the code inspects ("/", ".", "*", ",").  *)
(* The empty sequence is the empty string; undefined and null are only     *)
(* ever tested for truthiness where they can occur, so they are modelled   *)
(* by the empty (falsy) string as well, and the presence of a key is the   *)
(* membership of the key in the DOMAIN of the object.                      *)
(*                                                                         *)
(* A broccoli tree is a record with type "tree"; the field id stands for   *)
(* the identity of the JavaScript object (two trees built by two calls     *)
(* differ in id even if they are built from the same inputs).              *)
(***************************************************************************)
EXTENDS Integers, Sequences, FiniteSets, TLC

VARIABLES project, addonApp, app, invoked, hist, last

vars == <<project, addonApp, app, invoked, hist, last>>

----------------------------------------------------------------------------
(* Bounds of the model *)

\* at most this many import calls made by the build file on one app
MaxImports == 2

\* at most this many accessor / toTree calls on one app
MaxCalls == 2

\* the longest path of the app directory, in words
MaxPathLen == 6

----------------------------------------------------------------------------
(* JavaScript values *)

Null == [type |-> "null"]

Truthy(s) == s # <<>>

IsTree(t) == t.type = "tree"

Get(object, key) == IF key \in DOMAIN object THEN object[key] ELSE <<>>

JsString(s) == [type |-> "string", value |-> s]

Range(s) == {s[k] : k \in DOMAIN s}

RECURSIVE Reverse(_)
Reverse(s) == IF s = <<>> THEN <<>> ELSE Reverse(Tail(s)) \o <<Head(s)>>

\* lodash defaults(object, source): a key of source is assigned only where
\* the object has no value for it
defaults(object, source) ==
  [k \in (DOMAIN object) \cup (DOMAIN source) |->
     IF k \in DOMAIN object THEN object[k] ELSE source[k]]

\* Array.prototype.indexOf with strict equality, 0-based, -1 when absent
indexOf(list, x) ==
  IF \E k \in DOMAIN list : list[k] = x
  THEN (CHOOSE k \in DOMAIN list :
          list[k] = x /\ \A j \in DOMAIN list : list[j] = x => k <= j) - 1
  ELSE -1

\* Array.prototype.join on an array of strings
RECURSIVE join(_, _)
join(arr, separator) ==
  IF arr = <<>> THEN <<>>
  ELSE IF Len(arr) = 1 THEN arr[1]
  ELSE join(SubSeq(arr, 1, Len(arr) - 1), separator)
         \o separator \o arr[Len(arr)]

----------------------------------------------------------------------------
(* node's path module (posix) *)

sep == "/"

LastIndexOf(s, t) ==
  IF \E k \in DOMAIN s : s[k] = t
  THEN CHOOSE k \in DOMAIN s : s[k] = t /\ \A j \in DOMAIN s : s[j] = t => j <= k
  ELSE 0

FirstIndexOf(s, t) ==
  IF \E k \in DOMAIN s : s[k] = t
  THEN CHOOSE k \in DOMAIN s : s[k] = t /\ \A j \in DOMAIN s : s[j] = t => k <= j
  ELSE 0

dirname(p) ==
  LET k == LastIndexOf(p, sep)
  IN  IF k = 0 THEN <<".">>
      ELSE IF k = 1 THEN <<sep>>
      ELSE SubSeq(p, 1, k - 1)

basename(p) == SubSeq(p, LastIndexOf(p, sep) + 1, Len(p))

extname(p) ==
  LET b == basename(p)
      j == LastIndexOf(b, ".")
  IN  IF j <= 1 THEN <<>> ELSE SubSeq(b, j, Len(b))

\* String.prototype.replace(pattern, replacement) with a string pattern:
\* only the first occurrence is replaced
replace(s, pattern, replacement) ==
  LET k == FirstIndexOf(s, pattern)
  IN  IF k = 0 THEN s
      ELSE SubSeq(s, 1, k - 1) \o <<replacement>> \o SubSeq(s, k + 1, Len(s))

----------------------------------------------------------------------------
(* The project, its addons and the file system: the collaborators of       *)
(* EmberApp                                                                *)

AppIds == {1, 2}

ProjectIds == {1, 2}

Envs == {"development", "production", "test"}

\* project.bowerDirectory
ProjectBowerDirectory(p) == IF p = 1 THEN "bower_components" ELSE "vendor"

\* project.name()
ProjectName(p) == IF p = 1 THEN "app-one" ELSE "app-two"

AddonSlots == {1, 2, 3, 4, 5, 6}

AddonIds == ProjectIds \X AddonSlots

\* the addons a project discovers, in registration order
ProjectAddons(p) ==
  IF p = 1 THEN <<<<1, 1>>, <<1, 2>>, <<1, 3>>, <<1, 4>>, <<1, 5>>, <<1, 6>>>>
  ELSE <<<<2, 3>>, <<2, 6>>>>

\* the addon objects: which optional methods each one has and what they do
\*   isEnabled:       "none" (no method), "true", "false",
\*                    "tests" (returns this.app.tests)
\*   included:        whether the addon has the hook
\*   treeFor:         "none" (no method), "nothing" (returns undefined), "tree"
\*   postprocessTree: "none" (no method), "identity", "wrap"
\*   hasContentFor:   whether the addon has the hook
\*   content:         the name under which it contributes content ("" for none)
AddonDef(a) ==
  CASE a[2] = 1 -> [isEnabled |-> "none", included |-> TRUE, treeFor |-> "tree",
                    postprocessTree |-> "wrap", hasContentFor |-> TRUE, content |-> "P"]
    [] a[2] = 2 -> [isEnabled |-> "false", included |-> TRUE, treeFor |-> "tree",
                    postprocessTree |-> "wrap", hasContentFor |-> TRUE, content |-> "X"]
    [] a[2] = 3 -> [isEnabled |-> "tests", included |-> TRUE, treeFor |-> "nothing",
                    postprocessTree |-> "none", hasContentFor |-> TRUE, content |-> "T"]
    [] a[2] = 4 -> [isEnabled |-> "true", included |-> FALSE, treeFor |-> "none",
                    postprocessTree |-> "identity", hasContentFor |-> TRUE, content |-> ""]
    [] a[2] = 5 -> [isEnabled |-> "true", included |-> TRUE, treeFor |-> "tree",
                    postprocessTree |-> "wrap", hasContentFor |-> TRUE, content |-> "Q"]
    [] OTHER    -> [isEnabled |-> "none", included |-> FALSE, treeFor |-> "none",
                    postprocessTree |-> "none", hasContentFor |-> FALSE, content |-> ""]

\* the files on disk, relative to the working directory
ExistingFiles == {
  <<"bower_components", "/", "loader", ".", "js", "/", "loader", ".", "js">>,
  <<"bower_components", "/", "jquery", "/", "dist", "/", "jquery", ".", "js">>,
  <<"bower_components", "/", "handlebars", "/", "handlebars", ".", "js">>,
  <<"bower_components", "/", "handlebars", "/", "handlebars", ".", "runtime", ".", "js">>,
  <<"bower_components", "/", "ember", "/", "ember", ".", "js">>,
  <<"bower_components", "/", "ember", "/", "ember", ".", "prod", ".", "js">>,
  <<"bower_components", "/", "ember", "/", "ember-testing", ".", "js">>,
  <<"bower_components", "/", "ember-cli-shims", "/", "app-shims", ".", "js">>,
  <<"bower_components", "/", "ember-load-initializers", "/", "ember-load-initializers", ".", "js">>,
  <<"vendor", "/", "moment", "/", "moment", ".", "js">>,
  <<"vendor", "/", "moment", "/", "moment", ".", "min", ".", "js">>,
  <<"vendor", "/", "ui", "/", "ui", ".", "css">>,
  <<"vendor", "/", "ui", "/", "logo", ".", "png">>,
  <<"vendor", "/", "ember", "/", "ember", ".", "debug", ".", "js">>,
  <<"app", "/", "templates", "/", "application", ".", "hbs">>,
  <<"public", "/", "robots", ".", "txt">> }

\* fs.existsSync: a file, or a directory above a file
existsSync(p) ==
  \/ p \in ExistingFiles
  \/ p = <<".">>
  \/ \E f \in ExistingFiles :
       /\ Len(f) > Len(p) + 1
       /\ SubSeq(f, 1, Len(p)) = p
       /\ f[Len(p) + 1] = sep

\* registry.extensionsForType
extensionsForType(type) ==
  CASE type = "js"       -> <<"js", "coffee">>
    [] type = "template" -> <<"hbs", "handlebars">>
    [] OTHER             -> <<type>>

\* preprocessors.isType(file, type, {registry})
isType(file, type) ==
  LET extension == IF extname(file) = <<>> THEN <<>> ELSE Tail(extname(file))
  IN  \/ extension = <<type>>
      \/ \E k \in DOMAIN extensionsForType(type) :
           extension = <<extensionsForType(type)[k]>>

----------------------------------------------------------------------------
(* EmberApp.prototype.import                                               *)

NoOptions == << >>

StringAsset(path) == [kind |-> "string", path |-> path, map |-> << >>]

ObjectAsset(map) == [kind |-> "object", path |-> << >>, map |-> map]

\* /[\*\,]/.test(assetPath)
HasGlobCharacter(assetPath) ==
  \E k \in DOMAIN assetPath : assetPath[k] \in {"*", ","}

\* directory.replace(new RegExp('^vendor/|' + this.bowerDirectory), '')
subdirectoryOf(directory, bowerDirectory) ==
  IF Len(directory) >= 2 /\ directory[1] = "vendor" /\ directory[2] = "/"
  THEN SubSeq(directory, 3, Len(directory))
  ELSE LET k == FirstIndexOf(directory, bowerDirectory)
       IN  IF k = 0 THEN directory
           ELSE SubSeq(directory, 1, k - 1) \o SubSeq(directory, k + 1, Len(directory))

\* pickFiles(directory, {srcDir: '/', destDir: subdirectory}), a new object
ImportTree(directory, subdirectory, id) ==
  [type |-> "tree", op |-> "pickFiles", input |-> directory,
   destDir |-> subdirectory, id |-> id]

\* the asset path an asset argument resolves to
ResolveAssetPath(asset, env) ==
  IF asset.kind = "object"
  THEN IF Truthy(Get(asset.map, env))
       THEN Get(asset.map, env)
       ELSE Get(asset.map, "development")
  ELSE asset.path

ImportOutcome(a, h, outcome, error, assetPath, type) ==
  [app |-> a, hist |-> h, outcome |-> outcome, error |-> error,
   assetPath |-> assetPath, type |-> type]

\* a registration that ignores prepend
pushScript(list, assetPath, prepend) == Append(list, assetPath)

\* legacyFilesToAppend.unshift(assetPath) or legacyFilesToAppend.push(assetPath)
addScript(list, assetPath, prepend) ==
  IF prepend THEN <<assetPath>> \o list ELSE Append(list, assetPath)

\* a choice of the stylesheet list that ignores the type
vendorStyleList(type) == "vendorStaticStyles"

\* the list a stylesheet of the given type is pushed to
styleList(type) ==
  IF type = "vendor" THEN "vendorStaticStyles" ELSE "vendorTestStaticStyles"

\* the routing of a validated asset to one of the lists
ImportRoute(a, h, assetPath, options, directory, subdirectory, extension) ==
  IF isType(assetPath, "js")
  THEN IF options.type = "vendor"
       THEN ImportOutcome(
              [a EXCEPT !.legacyFilesToAppend =
                 addScript(@, assetPath, options.prepend)],
              [h EXCEPT !.vendorScripts =
                 Append(@, [path |-> assetPath, prepend |-> options.prepend])],
              "ok", "", assetPath, options.type)
       ELSE IF options.type = "test"
       THEN ImportOutcome(
              [a EXCEPT !.legacyTestFilesToAppend = Append(@, assetPath)],
              h, "ok", "", assetPath, options.type)
       ELSE ImportOutcome(a, h, "throw", "type", assetPath, options.type)
  ELSE IF extension = <<".", "css">>
  THEN ImportOutcome(
         [a EXCEPT ![styleList(options.type)] = Append(@, assetPath)],
         h, "ok", "", assetPath, options.type)
  ELSE LET destDir == IF "destDir" \in DOMAIN options /\ options.destDir = <<>>
                      THEN <<"/">>
                      ELSE Get(options, "destDir")
       IN  ImportOutcome(
             [a EXCEPT !.otherAssetPaths =
                Append(@, [src  |-> directory,
                           file |-> basename(assetPath),
                           dest |-> IF Truthy(destDir) THEN destDir
                                                      ELSE subdirectory])],
             h, "ok", "", assetPath, options.type)

\* import(asset, options) on the app a; the result holds the app as the call
\* leaves it and how the call ended: "ok" (an asset was registered),
\* "return" (the early return for an empty asset path), "throw"
import(a, h, asset, opts) ==
  LET resolved == ResolveAssetPath(asset, a.env)
  IN
  IF ~Truthy(resolved)
  THEN ImportOutcome(a, h, "return", "", resolved, "")
  ELSE
    LET assetPath    == replace(resolved, sep, "/")
        options      == defaults(opts, [type |-> "vendor", prepend |-> FALSE])
        directory    == dirname(assetPath)
        subdirectory == subdirectoryOf(directory, a.bowerDirectory)
        extension    == extname(assetPath)
        a1 == IF existsSync(directory)
                 /\ indexOf(a._importTrees, JsString(directory)) = -1
              THEN [a EXCEPT !._importTrees =
                      Append(@, ImportTree(directory, subdirectory, Len(@) + 1))]
              ELSE a
    IN
    IF HasGlobCharacter(assetPath)
    THEN ImportOutcome(a, h, "throw", "glob", assetPath, options.type)
    ELSE IF ~Truthy(extension)
    THEN ImportOutcome(a, h, "throw", "extension", assetPath, options.type)
    ELSE ImportRoute(a1, h, assetPath, options, directory, subdirectory, extension)

----------------------------------------------------------------------------
(* The EmberApp constructor                                                *)

\* EmberApp.env(): process.env.EMBER_ENV || 'development'
env(EMBER_ENV) == IF EMBER_ENV # "" THEN EMBER_ENV ELSE "development"

\* the option keys whose values are objects that are merged key by key
ObjectOptions == {"minifyCSS", "minifyJS"}

\* merge(options, source, defaults): an option the caller gave is kept, a
\* missing one takes its default, and an object-valued option takes the
\* defaults of the keys it lacks
mergeDefaults(options, source) ==
  [k \in (DOMAIN options) \cup (DOMAIN source) |->
     IF k \notin DOMAIN options THEN source[k]
     ELSE IF k \in ObjectOptions /\ k \in DOMAIN source
          THEN defaults(options[k], source[k])
          ELSE options[k]]

DefaultOptions(isProduction, bowerDirectory) ==
  [es3Safe           |-> TRUE,
   storeConfigInMeta |-> TRUE,
   autoRun           |-> TRUE,
   minifyCSS         |-> [enabled |-> isProduction,
                          options |-> [relativeTo |-> "app/styles"]],
   minifyJS          |-> [enabled |-> isProduction],
   loader            |-> <<bowerDirectory, "/", "loader", ".", "js", "/",
                           "loader", ".", "js">>]

\* this.vendorFiles, in the order of its keys, each entry being the
\* arguments of the import call made for it
VendorFiles(bowerDirectory, loader) ==
  LET bower == <<bowerDirectory, "/">>
      debugEmber == bower \o <<"ember", "/", "ember", ".", "debug", ".", "js">>
      defaultDevelopmentEmber ==
        IF existsSync(debugEmber) THEN debugEmber
        ELSE bower \o <<"ember", "/", "ember", ".", "js">>
      emberTesting == bower \o <<"ember", "/", "ember-testing", ".", "js">>
  IN
  << [asset |-> StringAsset(loader), options |-> NoOptions],
     [asset |-> StringAsset(bower \o <<"jquery", "/", "dist", "/", "jquery", ".", "js">>),
      options |-> NoOptions],
     [asset |-> ObjectAsset(
        [development |-> bower \o <<"handlebars", "/", "handlebars", ".", "js">>,
         production  |-> bower \o <<"handlebars", "/", "handlebars", ".", "runtime", ".", "js">>]),
      options |-> NoOptions],
     [asset |-> ObjectAsset(
        [development |-> defaultDevelopmentEmber,
         production  |-> bower \o <<"ember", "/", "ember", ".", "prod", ".", "js">>]),
      options |-> NoOptions] >>
  \o (IF existsSync(emberTesting)
      THEN << [asset |-> StringAsset(emberTesting), options |-> [type |-> "test"]] >>
      ELSE << >>)
  \o
  << [asset |-> StringAsset(bower \o <<"ember-cli-shims", "/", "app-shims", ".", "js">>),
      options |-> [exports |-> "ember"]],
     [asset |-> StringAsset(bower \o <<"ember-resolver", "/", "dist", "/", "modules", "/",
                                       "ember-resolver", ".", "js">>),
      options |-> [exports |-> "ember/resolver"]],
     [asset |-> StringAsset(bower \o <<"ember-load-initializers", "/",
                                       "ember-load-initializers", ".", "js">>),
      options |-> [exports |-> "ember/load-initializers"]] >>

\* a tree of the trees option: a watched directory or an unwatchedTree
SourceTree(i, dir) == [type |-> "tree", op |-> "source", app |-> i, dir |-> dir]

\* this.options.trees
DefaultTrees(i, bowerDirectory) ==
  [app       |-> SourceTree(i, <<"app">>),
   tests     |-> SourceTree(i, <<"tests">>),
   styles    |-> SourceTree(i, <<"app", "/", "styles">>),
   templates |-> IF existsSync(<<"app", "/", "templates">>)
                 THEN SourceTree(i, <<"app", "/", "templates">>) ELSE Null,
   bower     |-> SourceTree(i, <<bowerDirectory>>),
   vendor    |-> IF existsSync(<<"vendor">>) THEN SourceTree(i, <<"vendor">>) ELSE Null,
   public    |-> IF existsSync(<<"public">>) THEN SourceTree(i, <<"public">>) ELSE Null]

\* the methods whose results are told apart by the call that built them
Accessors == {"_filterAppTree", "_processedBowerTree", "_processedVendorTree",
              "_processedExternalTree", "_configTree", "_processedEmberCLITree",
              "_processedAppTree", "toTree"}

\* the fields of an app that has not been constructed; objects counts, for
\* each method, the trees it has built on this app
NoApp ==
  [constructed |-> FALSE, project |-> 0, env |-> "", name |-> "",
   tests |-> FALSE, bowerDirectory |-> "", options |-> << >>, trees |-> << >>,
   legacyFilesToAppend |-> << >>, vendorStaticStyles |-> << >>,
   otherAssetPaths |-> << >>, _importTrees |-> << >>,
   legacyTestFilesToAppend |-> << >>, vendorTestStaticStyles |-> << >>,
   _cachedFilterAppTree |-> Null, _cachedBowerTree |-> Null,
   _cachedVendorTree |-> Null, _cachedExternalTree |-> Null,
   _cachedConfigTree |-> Null, _cachedEmberCLITree |-> Null,
   objects |-> [op \in Accessors |-> 0]]

\* the methods that build a tree with an overwrite merge of addon trees and
\* a tree of the app
MergeMethods == {"_processedAppTree", "_processedTemplatesTree", "_processedTestsTree",
                 "_processedVendorTree", "publicTree"}

\* what is recorded about an app for the properties (not program state)
NoHist ==
  [imports |-> 0, calls |-> 0, vendorScripts |-> << >>,
   enabled |-> << >>, disabled |-> {},
   returned |-> [acc \in {"_processedAppTree", "_processedVendorTree",
                          "_configTree", "_processedExternalTree"} |-> {}],
   winners |-> [method \in MergeMethods |-> {}]]

\* the fields the constructor assigns before populateLegacyFiles
NewApp(i, p, EMBER_ENV, testCommand, options) ==
  LET isProduction == env(EMBER_ENV) = "production"
      bower        == ProjectBowerDirectory(p)
  IN  [NoApp EXCEPT
         !.constructed    = TRUE,
         !.project        = p,
         !.env            = env(EMBER_ENV),
         !.name           = ProjectName(p),
         !.tests          = IF testCommand THEN TRUE
                            ELSE IF "tests" \in DOMAIN options THEN options.tests
                            ELSE ~isProduction,
         !.bowerDirectory = bower,
         !.options        = mergeDefaults(options, DefaultOptions(isProduction, bower)),
         !.trees          = DefaultTrees(i, bower)]

\* populateLegacyFiles: one import per entry of vendorFiles, in order
RECURSIVE populateLegacyFiles(_, _, _)
populateLegacyFiles(a, h, files) ==
  IF files = << >> THEN [app |-> a, hist |-> h]
  ELSE LET r == import(a, h, Head(files).asset, Head(files).options)
       IN  populateLegacyFiles(r.app, r.hist, Tail(files))

\* project.initializeAddons(): the addons are discovered once per project
initializeAddons(proj, p) ==
  IF proj.addonsInitialized THEN proj
  ELSE [addonsInitialized |-> TRUE, addons |-> ProjectAddons(p)]

\* addon.isEnabled(), called with addon.app already set to the app
isEnabled(addon, tests) ==
  CASE AddonDef(addon).isEnabled = "true"  -> TRUE
    [] AddonDef(addon).isEnabled = "false" -> FALSE
    [] OTHER                               -> tests

\* the callback of the filter in _notifyAddonIncluded: whether addon is kept
KeepsAddon(addon, tests) ==
  AddonDef(addon).isEnabled = "none" \/ isEnabled(addon, tests)

\* the hooks the filter of _notifyAddonIncluded invokes on the addons
NotifyCalls(i, addons, tests) ==
  {<<i, addons[k], "isEnabled">> :
     k \in {j \in DOMAIN addons : AddonDef(addons[j]).isEnabled # "none"}}
  \cup
  {<<i, addons[k], "included">> :
     k \in {j \in DOMAIN addons : /\ KeepsAddon(addons[j], tests)
                                  /\ AddonDef(addons[j]).included}}

\* _notifyAddonIncluded: project.addons after the filter
_notifyAddonIncluded(proj, p, tests) ==
  LET initialized == initializeAddons(proj, p)
  IN  [initialized EXCEPT
         !.addons = SelectSeq(@, LAMBDA addon : KeepsAddon(addon, tests))]

----------------------------------------------------------------------------
(* Trees and the addon hooks                                               *)

\* a tree built by the app i from the trees inputs; id tells the objects
\* that one method builds on one app apart
Node(op, i, id, inputs) ==
  [type |-> "tree", op |-> op, app |-> i, id |-> id, inputs |-> inputs]

\* the tree an addon returns from treeFor(type)
AddonTree(addon, type) ==
  [type |-> "tree", op |-> "treeFor", addon |-> addon, for |-> type]

\* the tree an addon returns from postprocessTree(type, tree)
PostprocessedTree(addon, type, tree) ==
  IF AddonDef(addon).postprocessTree = "identity" THEN tree
  ELSE [type |-> "tree", op |-> "postprocessTree", addon |-> addon,
        stage |-> type, input |-> tree]

\* the map over project.addons: what treeFor(type) returns, and nothing
\* (Null) for an addon without the hook or whose hook returns nothing
MapTreeFor(addons, type) ==
  [k \in DOMAIN addons |->
     IF AddonDef(addons[k]).treeFor = "tree" THEN AddonTree(addons[k], type) ELSE Null]

\* the mapped array as it is, the entries that are nothing included
addonTreesForUnfiltered(addons, type) == MapTreeFor(addons, type)

\* addonTreesFor(type): map over project.addons, then filter(Boolean)
addonTreesFor(addons, type) == SelectSeq(MapTreeFor(addons, type), IsTree)

\* addonPostprocessTree(type, tree): the forEach over project.addons; calls
\* is the sequence of the postprocessTree calls made so far
RECURSIVE PostprocessFrom(_, _, _, _)
PostprocessFrom(addons, type, workingTree, calls) ==
  IF addons = << >> THEN [tree |-> workingTree, calls |-> calls]
  ELSE IF AddonDef(Head(addons)).postprocessTree # "none"
  THEN LET returned == PostprocessedTree(Head(addons), type, workingTree)
       IN  PostprocessFrom(Tail(addons), type, returned,
             Append(calls, [addon |-> Head(addons), stage |-> type,
                            tree |-> workingTree, returned |-> returned]))
  ELSE PostprocessFrom(Tail(addons), type, workingTree, calls)

\* a walk over the addons from the last one to the first
addonPostprocessTreeBackwards(addons, type, tree) ==
  PostprocessFrom(Reverse(addons), type, tree, << >>)

addonPostprocessTree(addons, type, tree) ==
  PostprocessFrom(addons, type, tree, << >>)

\* the hooks that a walk over project.addons invokes, for a hook every addon
\* of the list that has it is asked
HookCalls(i, addons, hook) ==
  {<<i, addons[k], hook>> :
     k \in {j \in DOMAIN addons :
              CASE hook = "treeFor"         -> AddonDef(addons[j]).treeFor # "none"
                [] hook = "postprocessTree" -> AddonDef(addons[j]).postprocessTree # "none"
                [] OTHER                    -> AddonDef(addons[j]).hasContentFor}}

\* the characters of the words the paths of the app directory are made of
Spell(word) ==
  CASE word = "template"   -> <<"t", "e", "m", "p", "l", "a", "t", "e">>
    [] word = "templates"  -> <<"t", "e", "m", "p", "l", "a", "t", "e", "s">>
    [] word = "styles"     -> <<"s", "t", "y", "l", "e", "s">>
    [] word = "hbs"        -> <<"h", "b", "s">>
    [] word = "handlebars" -> <<"h", "a", "n", "d", "l", "e", "b", "a", "r", "s">>
    [] OTHER               -> <<word>>

\* the characters of a path
RECURSIVE Text(_)
Text(path) == IF path = << >> THEN << >> ELSE Spell(Head(path)) \o Text(Tail(path))

\* /^styles/ and /^templates/
Prefix(word) == [kind |-> "prefix", word |-> word]

\* new RegExp('template.' + extension + '$')
PodPattern(extension) == [kind |-> "pod", word |-> extension]

\* pattern.test(text): the prefix patterns are anchored at the start, the pod
\* patterns at the end only, and their dot stands for any one character
test(pattern, text) ==
  LET word == Spell(pattern.word)
      n    == Len(text)
  IN  IF pattern.kind = "prefix"
      THEN Len(word) <= n /\ SubSeq(text, 1, Len(word)) = word
      ELSE LET stem == Spell("template")
               m    == Len(stem) + 1 + Len(word)
           IN  /\ m <= n
               /\ SubSeq(text, n - m + 1, n - m + Len(stem)) = stem
               /\ SubSeq(text, n - Len(word) + 1, n) = word

_podTemplatePatterns ==
  [k \in DOMAIN extensionsForType("template") |->
     PodPattern(extensionsForType("template")[k])]

\* the exclude patterns of the funnel of _filterAppTree
excludePatterns == _podTemplatePatterns \o <<Prefix("styles"), Prefix("templates")>>

\* a funnel that lets its include patterns decide before its exclude patterns
FunnelIncludeFirst(path, filtersInclude, include, exclude) ==
  IF filtersInclude
  THEN \E k \in DOMAIN include : test(include[k], Text(path))
  ELSE \A k \in DOMAIN exclude : ~test(exclude[k], Text(path))

\* whether a funnel with these patterns lets a path of its input through: a
\* path that matches an exclude pattern is left out, and of the others the
\* funnel keeps those that match an include pattern, if it has any
Funnel(path, filtersInclude, include, exclude) ==
  /\ \A k \in DOMAIN exclude : ~test(exclude[k], Text(path))
  /\ filtersInclude => \E k \in DOMAIN include : test(include[k], Text(path))

\* whether 'Funnel: Filtered App' has a path of the app directory
FilteredApp(path) == Funnel(path, FALSE, << >>, excludePatterns)

\* whether 'Funnel: Pod Templates' has a path of the app directory
PodTemplates(path) == Funnel(path, TRUE, _podTemplatePatterns, <<Prefix("templates")>>)

\* the merges made with {overwrite: true}, by their description (the merge
\* of publicTree has none)
OverwriteMerges == {"TreeMerger (app)", "TreeMerger (templates)", "TreeMerger (tests)",
                    "TreeMerger (addons)", "TreeMerger (vendor)", "publicTree",
                    "TreeMerger (allTrees)"}

\* the files of a tree, as a function from the path to the provider of the
\* file: the slot of the addon for a tree an addon contributed, 0 for a
\* directory of the application, -1 for a file another plugin wrote; an
\* overwrite merge takes each path from the last input that has it
RECURSIVE Files(_)
RECURSIVE MergedFiles(_)
MergedFiles(trees) ==
  IF trees = << >> THEN [p \in {} |-> 0]
  ELSE LET earlier == MergedFiles(SubSeq(trees, 1, Len(trees) - 1))
           later   == Files(trees[Len(trees)])
       IN  [p \in (DOMAIN earlier) \cup (DOMAIN later) |->
              IF p \in DOMAIN later THEN later[p] ELSE earlier[p]]

Files(tree) ==
  IF tree.op = "treeFor" THEN [p \in {"shared", "addons"} |-> tree.addon[2]]
  ELSE IF tree.op \in {"source", "Funnel: Filtered App"}
  THEN [p \in {"shared", "own"} |-> 0]
  ELSE IF tree.op \in OverwriteMerges THEN MergedFiles(tree.inputs)
  ELSE [p \in {"written"} |-> -1]

----------------------------------------------------------------------------
(* The tree accessors; each returns the tree and the app as the call       *)
(* leaves it                                                               *)

\* var name = value, followed by the statements that use it
Let(value, Rest(_)) == Rest(value)

Built(a, tree) == [app |-> a, tree |-> tree]

\* the app after the method op has built one more object
Counted(a, op) == [a EXCEPT !.objects[op] = @ + 1]

\* the identity of the next object the method op builds on the app
NextId(a, op) == a.objects[op] + 1

_filterAppTree(a, i) ==
  IF IsTree(a._cachedFilterAppTree) THEN Built(a, a._cachedFilterAppTree)
  ELSE Let(Node("Funnel: Filtered App", i, NextId(a, "_filterAppTree"), <<a.trees.app>>),
           LAMBDA tree :
    Built([Counted(a, "_filterAppTree") EXCEPT !._cachedFilterAppTree = tree], tree))

\* built anew by every call: mergeTrees and pickFiles return new objects
_processedAppTree(a, i, addons) ==
  Let(_filterAppTree(a, i), LAMBDA filtered :
  Let(NextId(a, "_processedAppTree"), LAMBDA id :
    Built(Counted(filtered.app, "_processedAppTree"),
          Node("_processedAppTree", i, id,
               <<Node("TreeMerger (app)", i, id,
                      addonTreesFor(addons, "app") \o <<filtered.tree>>)>>))))

_processedTemplatesTree(a, i, addons, id) ==
  Let(addonTreesFor(addons, "templates"), LAMBDA addonTrees :
  Let(IF IsTree(a.trees.templates)
      THEN addonTrees \o <<a.trees.templates>> ELSE addonTrees, LAMBDA mergedTrees :
    Built(a, Node("_processedTemplatesTree", i, id,
                  <<Node("TreeMerger (templates)", i, id, mergedTrees),
                    Node("Funnel: Pod Templates", i, id, <<a.trees.app>>)>>))))

_processedTestsTree(a, i, addons, id) ==
  Built(a, Node("_processedTestsTree", i, id,
                <<Node("TreeMerger (tests)", i, id,
                       addonTreesFor(addons, "test-support") \o <<a.trees.tests>>)>>))

\* returns nothing (Null) when bower and vendor are the same directory
_processedBowerTree(a, i) ==
  IF IsTree(a._cachedBowerTree) THEN Built(a, a._cachedBowerTree)
  ELSE IF a.bowerDirectory = "vendor" THEN Built(a, Null)
  ELSE Let(Node("_processedBowerTree", i, NextId(a, "_processedBowerTree"),
                <<a.trees.bower>>),
           LAMBDA tree :
    Built([Counted(a, "_processedBowerTree") EXCEPT !._cachedBowerTree = tree], tree))

_processedVendorTree(a, i, addons) ==
  IF IsTree(a._cachedVendorTree) THEN Built(a, a._cachedVendorTree)
  ELSE
  Let(NextId(a, "_processedVendorTree"), LAMBDA id :
  Let(Node("TreeMerger (addons)", i, id,
           <<Node("Concat: Addon CSS", i, id, addonTreesFor(addons, "addon")),
             Node("Concat: Addon JS", i, id, addonTreesFor(addons, "addon"))>>
           \o addonTreesFor(addons, "vendor")),
      LAMBDA addonTrees :
  Let(a._importTrees \o <<addonTrees>>
      \o (IF IsTree(a.trees.vendor) THEN <<a.trees.vendor>> ELSE << >>),
      LAMBDA trees :
  Let(Node("_processedVendorTree", i, id, <<Node("TreeMerger (vendor)", i, id, trees)>>),
      LAMBDA tree :
    Built([Counted(a, "_processedVendorTree") EXCEPT !._cachedVendorTree = tree], tree)))))

_processedExternalTree(a, i, addons) ==
  IF IsTree(a._cachedExternalTree) THEN Built(a, a._cachedExternalTree)
  ELSE
  Let(_processedVendorTree(a, i, addons), LAMBDA vendor :
  Let(_processedBowerTree(vendor.app, i), LAMBDA bower :
  Let(Node("TreeMerger (ExternalTree)", i, NextId(a, "_processedExternalTree"),
           (IF IsTree(bower.tree) THEN <<bower.tree>> ELSE << >>) \o <<vendor.tree>>),
      LAMBDA tree :
    Built([Counted(bower.app, "_processedExternalTree")
             EXCEPT !._cachedExternalTree = tree], tree))))

_configTree(a, i) ==
  IF IsTree(a._cachedConfigTree) THEN Built(a, a._cachedConfigTree)
  ELSE Let(Node("_configTree", i, NextId(a, "_configTree"), << >>), LAMBDA tree :
    Built([Counted(a, "_configTree") EXCEPT !._cachedConfigTree = tree], tree))

_processedEmberCLITree(a, i) ==
  IF IsTree(a._cachedEmberCLITree) THEN Built(a, a._cachedEmberCLITree)
  ELSE
  Let(_configTree(a, i), LAMBDA config :
  Let(Node("_processedEmberCLITree", i, NextId(a, "_processedEmberCLITree"),
           <<config.tree>>),
      LAMBDA tree :
    Built([Counted(config.app, "_processedEmberCLITree")
             EXCEPT !._cachedEmberCLITree = tree], tree)))

----------------------------------------------------------------------------
(* The output trees and the final assembly                                 *)

\* object[key] = value
assign(object, key, value) ==
  [k \in (DOMAIN object) \cup {key} |-> IF k = key THEN value ELSE object[k]]

index(a, i, id) ==
  Let(_configTree(a, i), LAMBDA config :
    Built(config.app,
          Node("index", i, id,
               <<Node("Funnel: index.html", i, id, <<a.trees.app>>), config.tree>>)))

testIndex(a, i, id) ==
  Let(_configTree(a, i), LAMBDA config :
    Built(config.app,
          Node("testIndex", i, id,
               <<Node("pickFiles: tests/index.html", i, id, <<a.trees.tests>>),
                 config.tree>>)))

\* a merge that puts the public directory of the app before the addon trees
publicTreeOwnFirst(a, i, addons, id) ==
  Built(a, Node("publicTree", i, id,
                (IF IsTree(a.trees.public) THEN <<a.trees.public>> ELSE << >>)
                \o addonTreesFor(addons, "public")))

publicTree(a, i, addons, id) ==
  Built(a, Node("publicTree", i, id,
                addonTreesFor(addons, "public")
                \o (IF IsTree(a.trees.public) THEN <<a.trees.public>> ELSE << >>)))

appAndDependencies(a, i, addons, id) ==
  Let(_processedAppTree(a, i, addons), LAMBDA app0 :
  Let(_processedTemplatesTree(app0.app, i, addons, id), LAMBDA templates :
  Let(_configTree(templates.app, i), LAMBDA config :
  Let(_processedExternalTree(config.app, i, addons), LAMBDA external :
  Let(_processedTestsTree(external.app, i, addons, id), LAMBDA tests :
  Let(_processedEmberCLITree(external.app, i), LAMBDA emberCLI :
    LET appTree   == IF a.options.es3Safe
                     THEN Node("ES3SafeFilter", i, id, <<app0.tree>>) ELSE app0.tree
        postprocessedApp ==
          addonPostprocessTree(addons, "js",
                               Node("preprocessJs", i, id, <<appTree>>)).tree
        testTrees == IF a.tests
                     THEN <<addonPostprocessTree(addons, "test",
                              Node("preprocessJs (tests)", i, id, <<tests.tree>>)).tree>>
                     ELSE << >>
    IN  Built(emberCLI.app,
              Node("TreeMerger (appAndDependencies)", i, id,
                   <<external.tree, postprocessedApp, templates.tree, config.tree>>
                   \o testTrees \o <<emberCLI.tree>>))))))))

javascript(a, i, addons, id) ==
  Let(appAndDependencies(a, i, addons, id), LAMBDA applicationJs :
  Let(applicationJs.app, LAMBDA a1 :
  Let([type |-> "tree", op |-> "Concat: Vendor", app |-> i, id |-> id,
       inputs |-> <<applicationJs.tree>>,
       inputFiles |-> << <<"vendor", "/", "ember-cli", "/", "vendor-prepend", ".", "js">> >>
                      \o a.legacyFilesToAppend
                      \o << <<"vendor", "/", "addons", ".", "js">> >>],
      LAMBDA vendor :
  Let(Node("vendorAndApp", i, id,
           <<vendor, Node("Concat: App", i, id, <<applicationJs.tree>>)>>),
      LAMBDA vendorAndApp :
    IF a1.options.minifyJS.enabled
    THEN Built(
           IF "options" \in DOMAIN a1.options.minifyJS
           THEN [a1 EXCEPT !.options.minifyJS.options =
                             assign(@, "sourceMapConfig", "sourcemaps")]
           ELSE a1,
           Node("uglifyJavaScript", i, id, <<vendorAndApp>>))
    ELSE Built(a1, vendorAndApp)))))

styles(a, i, addons, id) ==
  Let(_processedExternalTree(a, i, addons), LAMBDA external :
  Let(external.app, LAMBDA a1 :
  Let(Node("TreeMerger (stylesAndVendor)", i, id,
           <<external.tree>> \o addonTreesFor(addons, "styles")
           \o <<Node("pickFiles: styles", i, id, <<a.trees.styles>>)>>),
      LAMBDA stylesAndVendor :
  Let([type |-> "tree", op |-> "Concat: Vendor Styles", app |-> i,
       id |-> id, inputs |-> <<stylesAndVendor>>,
       inputFiles |-> a.vendorStaticStyles
                      \o << <<"vendor", "/", "addons", ".", "css">> >>],
      LAMBDA vendorStyles :
  Let(Node("preprocessCss", i, id, <<stylesAndVendor>>), LAMBDA processedStyles :
    IF a1.options.minifyCSS.enabled
    THEN Built(
           IF "options" \in DOMAIN a1.options.minifyCSS
           THEN [a1 EXCEPT !.options.minifyCSS.options =
                             assign(@, "registry", "registry")]
           ELSE a1,
           Node("styles", i, id,
                <<Node("preprocessMinifyCss", i, id, <<processedStyles>>),
                  Node("preprocessMinifyCss", i, id, <<vendorStyles>>)>>))
    ELSE Built(a1, Node("styles", i, id, <<processedStyles, vendorStyles>>)))))))

otherAssets(a, i, addons, id) ==
  Let(_processedExternalTree(a, i, addons), LAMBDA external :
    Built(external.app,
          Node("TreeMerger (otherAssetTrees)", i, id,
               [k \in DOMAIN a.otherAssetPaths |->
                  [type |-> "tree", op |-> "pickFiles", app |-> i, id |-> id,
                   inputs |-> <<external.tree>>,
                   srcDir |-> a.otherAssetPaths[k].src,
                   files |-> <<a.otherAssetPaths[k].file>>,
                   destDir |-> a.otherAssetPaths[k].dest]])))

testFiles(a, i, addons, id) ==
  Let(_processedExternalTree(a, i, addons), LAMBDA external :
  Let(_processedEmberCLITree(external.app, i), LAMBDA emberCLI :
  Let(emberCLI.app, LAMBDA a1 :
    LET testJs  == [type |-> "tree", op |-> "Concat: Test Support JS", app |-> i,
                    id |-> id, inputs |-> <<external.tree>>,
                    inputFiles |-> a.legacyTestFilesToAppend]
        testCss == [type |-> "tree", op |-> "Concat: Test Support CSS", app |-> i,
                    id |-> id, inputs |-> <<external.tree>>,
                    inputFiles |-> a.vendorTestStaticStyles]
        a2      == IF "fingerprint" \in DOMAIN a1.options
                      /\ "exclude" \in DOMAIN a1.options.fingerprint
                   THEN [a1 EXCEPT !.options.fingerprint.exclude = Append(@, "testem")]
                   ELSE a1
    IN  Built(a2,
              Node("TreeMerger (testFiles)", i, id,
                   <<Node("Concat: Test Support Suffix", i, id, <<testJs, emberCLI.tree>>),
                     testCss,
                     Node("pickFiles: test-loader.js", i, id, <<external.tree>>),
                     Node("pickFiles: testem.js", i, id, << >>)>>)))))

\* an array that holds the test trees whatever the tests flag is
toArrayWithTests(a, i, addons, id) ==
  Let(index(a, i, id), LAMBDA t1 :
  Let(javascript(t1.app, i, addons, id), LAMBDA t2 :
  Let(styles(t2.app, i, addons, id), LAMBDA t3 :
  Let(otherAssets(t3.app, i, addons, id), LAMBDA t4 :
  Let(publicTree(t4.app, i, addons, id), LAMBDA t5 :
  Let(testIndex(t5.app, i, id), LAMBDA t6 :
  Let(testFiles(t6.app, i, addons, id), LAMBDA t7 :
    [app |-> t7.app,
     trees |-> <<t1.tree, t2.tree, t3.tree, t4.tree, t5.tree, t6.tree, t7.tree>>])))))))

\* toArray: the trees in the order of the merge
toArray(a, i, addons, id) ==
  Let(index(a, i, id), LAMBDA t1 :
  Let(javascript(t1.app, i, addons, id), LAMBDA t2 :
  Let(styles(t2.app, i, addons, id), LAMBDA t3 :
  Let(otherAssets(t3.app, i, addons, id), LAMBDA t4 :
  Let(publicTree(t4.app, i, addons, id), LAMBDA t5 :
  Let(<<t1.tree, t2.tree, t3.tree, t4.tree, t5.tree>>, LAMBDA sourceTrees :
    IF a.tests
    THEN Let(testIndex(t5.app, i, id), LAMBDA t6 :
         Let(testFiles(t6.app, i, addons, id), LAMBDA t7 :
           [app |-> t7.app, trees |-> sourceTrees \o <<t6.tree, t7.tree>>]))
    ELSE [app |-> t5.app, trees |-> sourceTrees]))))))

\* toTree(additionalTrees)
toTree(a, i, addons, additionalTrees) ==
  Let(NextId(a, "toTree"), LAMBDA id :
  Let(toArray(Counted(a, "toTree"), i, addons, id), LAMBDA array :
  Let([type |-> "tree", op |-> "TreeMerger (allTrees)", app |-> i, id |-> id,
       inputs |-> array.trees \o additionalTrees, overwrite |-> TRUE],
      LAMBDA tree :
  Let(addonPostprocessTree(addons, "all", tree), LAMBDA result :
    [app |-> array.app, merged |-> tree, tree |-> result.tree,
     calls |-> result.calls]))))

----------------------------------------------------------------------------
(* contentFor                                                              *)

\* utilities/clean-base-url: a leading and a trailing slash are added;
\* nothing is returned for a baseURL that is not a string
cleanBaseURL(config) ==
  IF "baseURL" \notin DOMAIN config THEN << >>
  ELSE LET leading == IF config.baseURL # << >> /\ Head(config.baseURL) = "/"
                      THEN config.baseURL ELSE <<"/">> \o config.baseURL
       IN  IF Len(leading) > 1 /\ leading[Len(leading)] # "/"
           THEN leading \o <<"/">> ELSE leading

calculateBaseTag(config) ==
  LET baseURL == cleanBaseURL(config)
  IN  IF config.locationType = "hash" THEN << >>
      ELSE IF Truthy(baseURL) THEN <<"<base href=\"">> \o baseURL \o <<"\" />">>
      ELSE << >>

\* the keys of the configuration record, in the order JSON.stringify meets them
ConfigKeys == <<"modulePrefix", "baseURL", "locationType">>

RECURSIVE StringifyKeys(_, _)
StringifyKeys(config, keys) ==
  IF keys = << >> THEN << >>
  ELSE LET rest == StringifyKeys(config, Tail(keys))
           value == IF Head(keys) = "baseURL" THEN config.baseURL
                    ELSE <<config[Head(keys)]>>
       IN  IF Head(keys) \notin DOMAIN config THEN rest
           ELSE <<"\"", Head(keys), "\"", ":", "\"">> \o value \o <<"\"">>
                \o (IF rest = << >> THEN << >> ELSE <<",">> \o rest)

\* JSON.stringify(config)
stringify(config) == <<"{">> \o StringifyKeys(config, ConfigKeys) \o <<"}">>

\* escape(string): the characters outside [A-Za-z0-9@*_+-./] are encoded
escape(s) ==
  [k \in DOMAIN s |->
     CASE s[k] = "{"  -> "%7B"
       [] s[k] = "}"  -> "%7D"
       [] s[k] = "\"" -> "%22"
       [] s[k] = ":"  -> "%3A"
       [] s[k] = ","  -> "%2C"
       [] OTHER       -> s[k]]

\* JSON.stringify(config.APP || {}); the configurations of the model have no APP
calculateAppConfig(config) == <<"{", "}">>

\* what an addon returns from contentFor(type, config)
AddonContent(addon, type) ==
  IF AddonDef(addon).content = "" THEN << >>
  ELSE <<AddonDef(addon).content, ":", type>>

\* the content array before the addons are asked
BuiltinContent(a, config, type) ==
  (IF type = "head"
   THEN <<calculateBaseTag(config)>>
        \o (IF a.options.storeConfigInMeta
            THEN << <<"<meta name=\"", config.modulePrefix, "/config/environment\" ",
                      "content=\"">> \o escape(stringify(config)) \o <<"\" />">> >>
            ELSE << >>)
   ELSE << >>)
  \o
  (IF type = "config-module"
   THEN IF a.options.storeConfigInMeta
        THEN << <<"var prefix = '", config.modulePrefix, "';">>,
                <<"app-config-from-meta.js">> >>
        ELSE << <<"return { 'default': ">> \o stringify(config) \o <<"};">> >>
   ELSE << >>)
  \o
  (IF type = "app"
   THEN << <<"if (runningTests) {">>,
           <<"  require(\"", config.modulePrefix, "/tests/test-helper\");">> >>
        \o (IF a.options.autoRun
            THEN << <<"} else {">>,
                    <<"  require(\"", config.modulePrefix, "/app\")[\"default\"].create(">>
                      \o calculateAppConfig(config) \o <<");">> >>
            ELSE << >>)
        \o << <<"}">> >>
   ELSE << >>)

\* the reduce over project.addons
RECURSIVE ReduceContent(_, _, _)
ReduceContent(addons, type, content) ==
  IF addons = << >> THEN content
  ELSE LET addonContent == IF AddonDef(Head(addons)).hasContentFor
                           THEN AddonContent(Head(addons), type) ELSE << >>
       IN  ReduceContent(Tail(addons), type,
                         IF Truthy(addonContent) THEN content \o <<addonContent>>
                                                 ELSE content)

\* a content whose pieces are joined without a separator
contentForUnseparated(a, addons, config, type) ==
  join(ReduceContent(addons, type, BuiltinContent(a, config, type)), << >>)

contentFor(a, addons, config, type) ==
  join(ReduceContent(addons, type, BuiltinContent(a, config, type)), <<"\n">>)

----------------------------------------------------------------------------
(* The inputs of the operations                                            *)

\* process.env.EMBER_ENV ("" when it is not set)
EnvInputs == {"", "production", "test"}

\* the options given to the constructor
ConstructOptionInputs ==
  << NoOptions,
     [tests |-> TRUE, fingerprint |-> [exclude |-> <<"vendor">>]],
     [tests |-> FALSE],
     [storeConfigInMeta |-> FALSE, autoRun |-> FALSE],
     [minifyJS  |-> [enabled |-> TRUE, options |-> [mangle |-> TRUE]],
      minifyCSS |-> [enabled |-> TRUE]] >>

momentJs == <<"vendor", "/", "moment", "/", "moment", ".", "js">>

momentMinJs == <<"vendor", "/", "moment", "/", "moment", ".", "min", ".", "js">>

uiCss == <<"vendor", "/", "ui", "/", "ui", ".", "css">>

logoPng == <<"vendor", "/", "ui", "/", "logo", ".", "png">>

\* the assets given to import
AssetInputs ==
  << StringAsset(momentJs),
     StringAsset(momentMinJs),
     StringAsset(uiCss),
     StringAsset(logoPng),
     StringAsset(<<"bower_components", "/", "ghost", "/", "ghost", ".", "coffee">>),
     StringAsset(<<"vendor", "/", "ui", "/", "*", ".", "js">>),
     StringAsset(<<"vendor", "/", "ui", "/", "README">>),
     StringAsset(<< >>),
     ObjectAsset([development |-> momentJs, production |-> momentMinJs]),
     ObjectAsset([development |-> momentJs, production |-> << >>]),
     ObjectAsset([production |-> uiCss]) >>

\* the options given to import
ImportOptionInputs ==
  << NoOptions,
     [type |-> "vendor", prepend |-> TRUE],
     [prepend |-> TRUE],
     [type |-> "test"],
     [type |-> "bogus"],
     [destDir |-> << >>],
     [type |-> "test", destDir |-> <<"assets">>] >>

\* the configuration records given to contentFor
ConfigInputs ==
  << [modulePrefix |-> "app-one", baseURL |-> <<"/">>, locationType |-> "auto"],
     [modulePrefix |-> "app-one", baseURL |-> <<"blog">>, locationType |-> "hash"],
     [modulePrefix |-> "app-one", locationType |-> "auto"] >>

\* the section names given to contentFor
ContentTypes == {"head", "config-module", "app", "body-footer"}

\* the types given to addonTreesFor
TreeTypes == {"app", "styles", "vendor"}

\* a tree that does not come from the app
OutsideTree(name) == [type |-> "tree", op |-> "outside", name |-> name]

\* the additionalTrees given to toTree (none, or one tree)
AdditionalTreeInputs == << << >>, <<OutsideTree("additional")>> >>

----------------------------------------------------------------------------
(* The operations                                                          *)

Addons(i) == project[app[i].project].addons

TotalImports == hist[1].imports + hist[2].imports

TotalCalls == hist[1].calls + hist[2].calls

Init ==
  /\ project  = [p \in ProjectIds |-> [addonsInitialized |-> FALSE, addons |-> << >>]]
  /\ addonApp = [a \in AddonIds |-> 0]
  /\ app      = [i \in AppIds |-> NoApp]
  /\ invoked  = {}
  /\ hist     = [i \in AppIds |-> NoHist]
  /\ last     = [op |-> "none", app |-> 0]

\* new EmberApp(options) over the project p
Construct(i, p, EMBER_ENV, testCommand, options) ==
  /\ ~app[i].constructed
  /\ \A j \in AppIds : j < i => app[j].constructed
  /\ LET a0        == NewApp(i, p, EMBER_ENV, testCommand, options)
         populated == populateLegacyFiles(a0, NoHist,
                                          VendorFiles(a0.bowerDirectory, a0.options.loader))
         asked     == initializeAddons(project[p], p).addons
         notified  == _notifyAddonIncluded(project[p], p, a0.tests)
     IN  /\ app'      = [app EXCEPT ![i] = populated.app]
         /\ project'  = [project EXCEPT ![p] = notified]
         /\ addonApp' = [a \in AddonIds |-> IF a \in Range(asked) THEN i ELSE addonApp[a]]
         /\ invoked'  = invoked \cup NotifyCalls(i, asked, a0.tests)
         /\ hist'     = [hist EXCEPT ![i] =
                           [populated.hist EXCEPT
                              !.enabled  = notified.addons,
                              !.disabled = {a \in Range(asked) : ~KeepsAddon(a, a0.tests)}]]
         /\ last'     = [op |-> "construct", app |-> i]

\* app.import(asset, options)
CallImport(i, asset, options) ==
  /\ app[i].constructed
  /\ TotalImports < MaxImports
  /\ LET r == import(app[i], hist[i], asset, options)
     IN  /\ app'  = [app EXCEPT ![i] = r.app]
         /\ hist' = [hist EXCEPT ![i] = [r.hist EXCEPT !.imports = @ + 1]]
         /\ last' = [op |-> "import", app |-> i, asset |-> asset, options |-> options,
                     outcome |-> r.outcome, error |-> r.error,
                     assetPath |-> r.assetPath, optionType |-> r.type,
                     before |-> app[i]]
  /\ UNCHANGED <<project, addonApp, invoked>>

\* the record of a call of an accessor
Returned(h, accessor, tree) ==
  [h EXCEPT !.calls = @ + 1, !.returned[accessor] = @ \cup {tree}]

\* the overwrite merge inside the tree a merge method returned
MergeOf(method, tree) == IF method = "publicTree" THEN tree ELSE tree.inputs[1]

\* the record of the files of a merge a method made
Merged(h, method, tree) ==
  [h EXCEPT !.winners[method] = @ \cup {Files(MergeOf(method, tree))}]

CallProcessedAppTree(i) ==
  /\ app[i].constructed
  /\ TotalCalls < MaxCalls
  /\ LET r == _processedAppTree(app[i], i, Addons(i))
     IN  /\ app'  = [app EXCEPT ![i] = r.app]
         /\ hist' = [hist EXCEPT ![i] =
                       Merged(Returned(@, "_processedAppTree", r.tree),
                              "_processedAppTree", r.tree)]
         /\ last' = [op |-> "_processedAppTree", app |-> i, tree |-> r.tree]
  /\ invoked' = invoked \cup HookCalls(i, Addons(i), "treeFor")
  /\ UNCHANGED <<project, addonApp>>

CallProcessedVendorTree(i) ==
  /\ app[i].constructed
  /\ TotalCalls < MaxCalls
  /\ LET r == _processedVendorTree(app[i], i, Addons(i))
     IN  /\ app'  = [app EXCEPT ![i] = r.app]
         /\ hist' = [hist EXCEPT ![i] =
                       Merged(Returned(@, "_processedVendorTree", r.tree),
                              "_processedVendorTree", r.tree)]
         /\ last' = [op |-> "_processedVendorTree", app |-> i, tree |-> r.tree]
  /\ invoked' = IF IsTree(app[i]._cachedVendorTree) THEN invoked
                ELSE invoked \cup HookCalls(i, Addons(i), "treeFor")
  /\ UNCHANGED <<project, addonApp>>

\* the three merge methods below build a new tree on every call
CallProcessedTemplatesTree(i) ==
  /\ app[i].constructed
  /\ TotalCalls < MaxCalls
  /\ LET r == _processedTemplatesTree(app[i], i, Addons(i), hist[i].calls + 1)
     IN  /\ hist' = [hist EXCEPT ![i] =
                       Merged([@ EXCEPT !.calls = @ + 1], "_processedTemplatesTree", r.tree)]
         /\ last' = [op |-> "_processedTemplatesTree", app |-> i, tree |-> r.tree]
  /\ invoked' = invoked \cup HookCalls(i, Addons(i), "treeFor")
  /\ UNCHANGED <<project, addonApp, app>>

CallProcessedTestsTree(i) ==
  /\ app[i].constructed
  /\ TotalCalls < MaxCalls
  /\ LET r == _processedTestsTree(app[i], i, Addons(i), hist[i].calls + 1)
     IN  /\ hist' = [hist EXCEPT ![i] =
                       Merged([@ EXCEPT !.calls = @ + 1], "_processedTestsTree", r.tree)]
         /\ last' = [op |-> "_processedTestsTree", app |-> i, tree |-> r.tree]
  /\ invoked' = invoked \cup HookCalls(i, Addons(i), "treeFor")
  /\ UNCHANGED <<project, addonApp, app>>

CallPublicTree(i) ==
  /\ app[i].constructed
  /\ TotalCalls < MaxCalls
  /\ LET r == publicTree(app[i], i, Addons(i), hist[i].calls + 1)
     IN  /\ hist' = [hist EXCEPT ![i] =
                       Merged([@ EXCEPT !.calls = @ + 1], "publicTree", r.tree)]
         /\ last' = [op |-> "publicTree", app |-> i, tree |-> r.tree]
  /\ invoked' = invoked \cup HookCalls(i, Addons(i), "treeFor")
  /\ UNCHANGED <<project, addonApp, app>>

CallProcessedExternalTree(i) ==
  /\ app[i].constructed
  /\ TotalCalls < MaxCalls
  /\ LET r == _processedExternalTree(app[i], i, Addons(i))
     IN  /\ app'  = [app EXCEPT ![i] = r.app]
         /\ hist' = [hist EXCEPT ![i] = Returned(@, "_processedExternalTree", r.tree)]
         /\ last' = [op |-> "_processedExternalTree", app |-> i, tree |-> r.tree]
  /\ invoked' = IF IsTree(app[i]._cachedExternalTree) \/ IsTree(app[i]._cachedVendorTree)
                THEN invoked
                ELSE invoked \cup HookCalls(i, Addons(i), "treeFor")
  /\ UNCHANGED <<project, addonApp>>

CallConfigTree(i) ==
  /\ app[i].constructed
  /\ TotalCalls < MaxCalls
  /\ LET r == _configTree(app[i], i)
     IN  /\ app'  = [app EXCEPT ![i] = r.app]
         /\ hist' = [hist EXCEPT ![i] = Returned(@, "_configTree", r.tree)]
         /\ last' = [op |-> "_configTree", app |-> i, tree |-> r.tree]
  /\ UNCHANGED <<project, addonApp, invoked>>

\* app.toTree(additionalTrees); the accessors it calls return what a call
\* made on the app right before would have returned
CallToTree(i, additionalTrees) ==
  /\ app[i].constructed
  /\ TotalCalls < MaxCalls
  /\ LET r == toTree(app[i], i, Addons(i), additionalTrees)
     IN  /\ app'  = [app EXCEPT ![i] = r.app]
         /\ hist' = [hist EXCEPT ![i] =
              [@ EXCEPT
                 !.calls = @ + 1,
                 !.returned = [acc \in DOMAIN @ |->
                    @[acc] \cup
                    {CASE acc = "_processedAppTree" ->
                            _processedAppTree(app[i], i, Addons(i)).tree
                       [] acc = "_processedVendorTree" -> r.app._cachedVendorTree
                       [] acc = "_processedExternalTree" -> r.app._cachedExternalTree
                       [] OTHER -> r.app._cachedConfigTree}]]]
         /\ last' = [op |-> "toTree", app |-> i, additionalTrees |-> additionalTrees,
                     merged |-> r.merged, tree |-> r.tree, calls |-> r.calls,
                     before |-> app[i]]
  /\ invoked' = invoked \cup HookCalls(i, Addons(i), "treeFor")
                        \cup HookCalls(i, Addons(i), "postprocessTree")
  /\ UNCHANGED <<project, addonApp>>

\* app.contentFor(config, match, type), as the configuration replacement calls it
CallContentFor(i, config, type) ==
  /\ app[i].constructed
  /\ last' = [op |-> "contentFor", app |-> i, config |-> config, section |-> type,
              addons |-> Addons(i),
              content |-> contentFor(app[i], Addons(i), config, type)]
  /\ invoked' = invoked \cup HookCalls(i, Addons(i), "contentFor")
  /\ UNCHANGED <<project, addonApp, app, hist>>

\* app.addonTreesFor(type)
CallAddonTreesFor(i, type) ==
  /\ app[i].constructed
  /\ last' = [op |-> "addonTreesFor", app |-> i, for |-> type, addons |-> Addons(i),
              trees |-> addonTreesFor(Addons(i), type)]
  /\ invoked' = invoked \cup HookCalls(i, Addons(i), "treeFor")
  /\ UNCHANGED <<project, addonApp, app, hist>>

\* app.addonPostprocessTree(type, tree)
CallAddonPostprocessTree(i, type, tree) ==
  /\ app[i].constructed
  /\ LET r == addonPostprocessTree(Addons(i), type, tree)
     IN  last' = [op |-> "addonPostprocessTree", app |-> i, stage |-> type,
                  input |-> tree, addons |-> Addons(i),
                  tree |-> r.tree, calls |-> r.calls]
  /\ invoked' = invoked \cup HookCalls(i, Addons(i), "postprocessTree")
  /\ UNCHANGED <<project, addonApp, app, hist>>

----------------------------------------------------------------------------
(* The specifications                                                      *)

\* up to two apps, over the same project or over two, and the calls that
\* reach the addons
Next ==
  \/ \E i \in AppIds, p \in ProjectIds, e \in {"", "production"}, k \in {1, 2, 3} :
       Construct(i, p, e, FALSE, ConstructOptionInputs[k])
  \/ \E i \in AppIds : CallContentFor(i, ConfigInputs[1], "head")
  \/ \E i \in AppIds : CallAddonPostprocessTree(i, "js", OutsideTree("input"))
  \/ \E i \in AppIds : CallProcessedAppTree(i)
  \/ \E i \in AppIds : CallProcessedVendorTree(i)

Spec == Init /\ [][Next]_vars

\* one app: imports, the tree accessors and the final assembly
NextTrees ==
  \/ \E p \in ProjectIds, k \in {2, 3, 5} :
       Construct(1, p, "", FALSE, ConstructOptionInputs[k])
  \/ \E k \in {1, 4} : CallImport(1, AssetInputs[k], NoOptions)
  \/ CallProcessedAppTree(1)
  \/ CallProcessedVendorTree(1)
  \/ CallProcessedExternalTree(1)
  \/ CallConfigTree(1)
  \/ \E k \in DOMAIN AdditionalTreeInputs : CallToTree(1, AdditionalTreeInputs[k])

SpecTrees == Init /\ [][NextTrees]_vars

\* one app and the methods that merge the trees of the addons with its own
NextMerges ==
  \/ \E p \in ProjectIds, e \in EnvInputs, t \in BOOLEAN :
       Construct(1, p, e, t, NoOptions)
  \/ \E k \in {1, 4} : CallImport(1, AssetInputs[k], NoOptions)
  \/ CallProcessedAppTree(1)
  \/ CallProcessedTemplatesTree(1)
  \/ CallProcessedTestsTree(1)
  \/ CallProcessedVendorTree(1)
  \/ CallPublicTree(1)

SpecMerges == Init /\ [][NextMerges]_vars

\* the words of the paths of the app directory
PathWords == {"template", "s", "styles", "/", ".", "hbs"}

\* the paths of the app directory: no empty segment
AppPaths ==
  {path \in UNION {[1..n -> PathWords] : n \in 1..MaxPathLen} :
     /\ path[1] # "/"
     /\ path[Len(path)] # "/"
     /\ \A k \in 1..(Len(path) - 1) : ~(path[k] = "/" /\ path[k + 1] = "/")}

\* a path of the app directory, before the funnels read it
InitFunnels ==
  /\ project  = [p \in ProjectIds |-> [addonsInitialized |-> FALSE, addons |-> << >>]]
  /\ addonApp = [a \in AddonIds |-> 0]
  /\ app      = [i \in AppIds |-> NoApp]
  /\ invoked  = {}
  /\ hist     = [i \in AppIds |-> NoHist]
  /\ \E path \in AppPaths : last = [op |-> "path", app |-> 0, path |-> path]

\* the two funnels over the app directory read the path
ReadFunnels ==
  /\ last.op = "path"
  /\ last' = [op |-> "funnels", app |-> 0, path |-> last.path,
              filtered |-> FilteredApp(last.path),
              podTemplates |-> PodTemplates(last.path)]
  /\ UNCHANGED <<project, addonApp, app, invoked, hist>>

SpecFunnels == InitFunnels /\ [][ReadFunnels]_vars

\* one app and the calls of import made on it
NextImport ==
  \/ \E p \in ProjectIds, e \in EnvInputs :
       Construct(1, p, e, FALSE, NoOptions)
  \/ \E k \in DOMAIN AssetInputs, o \in DOMAIN ImportOptionInputs :
       CallImport(1, AssetInputs[k], ImportOptionInputs[o])

SpecImport == Init /\ [][NextImport]_vars

\* one app, constructed with any of the options, and the hook pipeline
NextHooks ==
  \/ \E p \in ProjectIds, e \in EnvInputs, t \in BOOLEAN,
        k \in DOMAIN ConstructOptionInputs :
       Construct(1, p, e, t, ConstructOptionInputs[k])
  \/ \E k \in DOMAIN ConfigInputs, type \in ContentTypes :
       CallContentFor(1, ConfigInputs[k], type)
  \/ \E type \in {"js", "test", "all"} :
       CallAddonPostprocessTree(1, type, OutsideTree("input"))
  \/ \E type \in TreeTypes : CallAddonTreesFor(1, type)

SpecHooks == Init /\ [][NextHooks]_vars

----------------------------------------------------------------------------
(* The properties                                                          *)

Constructed == {i \in AppIds : app[i].constructed}

\* C1: within one EmberApp, every call of one of the accessors
\* _processedAppTree, _processedVendorTree, _configTree and
\* _processedExternalTree returns the same tree: none of them has ever
\* returned two different trees on the same app
C1_SameTreeOnEveryCall ==
  \A i \in Constructed :
    \A accessor \in DOMAIN hist[i].returned :
      Cardinality(hist[i].returned[accessor]) <= 1

\* C2: no state is shared between two EmberApp instances: every app
\* consults the addon list computed at its own construction, each addon of
\* that list refers to that app, and the trees cached by two apps differ
C2_NothingSharedBetweenApps ==
  \A i \in Constructed :
    /\ Addons(i) = hist[i].enabled
    /\ \A addon \in Range(hist[i].enabled) : addonApp[addon] = i
    /\ \A j \in Constructed \ {i} :
         IsTree(app[i]._cachedVendorTree) =>
           app[i]._cachedVendorTree # app[j]._cachedVendorTree

\* C3: a call of import whose asset path has a glob character or no file
\* extension, or whose type is neither 'vendor' nor 'test', ends with an
\* error, whatever the kind of the asset
C3_InvalidImportThrows ==
  (last.op = "import" /\ Truthy(last.assetPath)) =>
    (( \/ HasGlobCharacter(last.assetPath)
       \/ ~Truthy(extname(last.assetPath))
       \/ last.optionType \notin {"vendor", "test"} )
     => last.outcome = "throw")

\* the lists of the paths of the registered scripts and stylesheets
PathLists == {"legacyFilesToAppend", "legacyTestFilesToAppend",
              "vendorStaticStyles", "vendorTestStaticStyles"}

\* the lists an import registers assets in
AssetLists == PathLists \cup {"otherAssetPaths"}

\* list l of the app has gained the asset of the last import, at one end
GainedAsset(l) ==
  LET new == app[last.app][l]
      old == last.before[l]
  IN  IF l = "otherAssetPaths"
      THEN /\ Len(new) = Len(old) + 1
           /\ SubSeq(new, 1, Len(old)) = old
           /\ new[Len(new)].src = dirname(last.assetPath)
           /\ new[Len(new)].file = basename(last.assetPath)
           /\ DOMAIN new[Len(new)] = {"src", "file", "dest"}
      ELSE \/ new = Append(old, last.assetPath)
           \/ new = <<last.assetPath>> \o old

\* C4: given a map of paths, import takes the path under the
\* key of the current environment whenever the map has that key, and the
\* development entry only when the map has no entry for the environment
C4_EnvironmentEntryWhenPresent ==
  (last.op = "import" /\ last.asset.kind = "object") =>
    LET map == last.asset.map
        e   == app[last.app].env
    IN  last.assetPath = IF e \in DOMAIN map THEN map[e] ELSE Get(map, "development")

\* C5: a successful import adds the asset to exactly one of the asset lists
\* and leaves the others unchanged; the list is chosen by kind and type:
\* scripts go to legacyFilesToAppend (vendor) or legacyTestFilesToAppend
\* (test), stylesheets to vendorStaticStyles (vendor) or
\* vendorTestStaticStyles (test), other files to otherAssetPaths as a
\* {src, file, dest} descriptor; without a type the type is 'vendor'
C5_ImportAddsToOneList ==
  (last.op = "import" /\ last.outcome = "ok") =>
    LET script     == isType(last.assetPath, "js")
        stylesheet == ~script /\ extname(last.assetPath) = <<".", "css">>
        type       == IF "type" \in DOMAIN last.options THEN last.options.type
                      ELSE "vendor"
    IN  /\ \E l \in AssetLists :
             /\ GainedAsset(l)
             /\ \A m \in AssetLists \ {l} : app[last.app][m] = last.before[m]
        /\ (script /\ type = "vendor") => GainedAsset("legacyFilesToAppend")
        /\ (script /\ type = "test") => GainedAsset("legacyTestFilesToAppend")
        /\ (stylesheet /\ type = "vendor") => GainedAsset("vendorStaticStyles")
        /\ (stylesheet /\ type = "test") => GainedAsset("vendorTestStaticStyles")
        /\ (~script /\ ~stylesheet) => GainedAsset("otherAssetPaths")

\* C5 witness: a stylesheet imported without a type has been added to
\* vendorStaticStyles
C5_Witness ==
  /\ last.op = "import"
  /\ last.outcome = "ok"
  /\ last.assetPath = uiCss
  /\ "type" \notin DOMAIN last.options
  /\ app[last.app].vendorStaticStyles = Append(last.before.vendorStaticStyles, uiCss)

PathsOf(imports) == [k \in DOMAIN imports |-> imports[k].path]

\* C6: legacyFilesToAppend holds exactly the paths of the successful vendor
\* script imports: the prepended ones first, the latest import first, then
\* the others in the order of their imports
C6_LegacyFilesOrder ==
  \A i \in Constructed :
    app[i].legacyFilesToAppend =
      Reverse(PathsOf(SelectSeq(hist[i].vendorScripts, LAMBDA e : e.prepend)))
      \o PathsOf(SelectSeq(hist[i].vendorScripts, LAMBDA e : ~e.prepend))

\* C6 witness: two scripts were prepended one after the other and are the
\* first two of the list, the second import first
C6_Witness ==
  \E i \in Constructed :
    LET prepended == PathsOf(SelectSeq(hist[i].vendorScripts, LAMBDA e : e.prepend))
    IN  /\ Len(prepended) = 2
        /\ prepended[1] # prepended[2]
        /\ Len(app[i].legacyFilesToAppend) > 2
        /\ app[i].legacyFilesToAppend[1] = prepended[2]
        /\ app[i].legacyFilesToAppend[2] = prepended[1]

\* the hooks of an addon that an app may reach after its construction
LaterHooks == {"included", "treeFor", "postprocessTree", "contentFor"}

\* C7: the enabled status of the addons is computed at the construction of
\* the app and is frozen: the list the app consults stays the list computed
\* then, an addon found disabled is not in it and none of its hooks is
\* invoked for the app, and an addon without isEnabled is in it
C7_EnabledStatusFrozen ==
  \A i \in Constructed :
    /\ Addons(i) = hist[i].enabled
    /\ \A addon \in hist[i].disabled :
         /\ addon \notin Range(Addons(i))
         /\ \A hook \in LaterHooks : <<i, addon, hook>> \notin invoked
    /\ \A addon \in Range(ProjectAddons(app[i].project)) :
         AddonDef(addon).isEnabled = "none" => addon \in Range(Addons(i))

\* the pieces, each on a line of its own: a newline between two pieces
RECURSIVE Lines(_)
Lines(pieces) ==
  IF pieces = << >> THEN << >>
  ELSE IF Len(pieces) = 1 THEN pieces[1]
  ELSE Head(pieces) \o <<"\n">> \o Lines(Tail(pieces))

\* what the addons of the list contribute to a section, in the order of the
\* list: the non-empty contents of the addons that have the contentFor hook
Contributions(addons, type) ==
  LET contributing == SelectSeq(addons, LAMBDA x :
                        AddonDef(x).hasContentFor /\ AddonDef(x).content # "")
  IN  [k \in DOMAIN contributing |-> <<AddonDef(contributing[k]).content, ":", type>>]

\* C8: contentFor returns the built-in content of the section followed by
\* the contribution of every enabled addon in the order of the addon list,
\* a single newline between two pieces; an addon without the contentFor
\* hook or with an empty contribution adds nothing
C8_ContentForJoinsContributions ==
  last.op = "contentFor" =>
    last.content =
      Lines(BuiltinContent(app[last.app], last.config, last.section)
            \o Contributions(last.addons, last.section))

\* C8 witness: the head section of an app with built-in head content and
\* the contributions of addons P and Q only: built-in, newline, P, newline, Q
C8_Witness ==
  /\ last.op = "contentFor"
  /\ last.section = "head"
  /\ Contributions(last.addons, "head") = << <<"P", ":", "head">>, <<"Q", ":", "head">> >>
  /\ \E builtin \in Range(BuiltinContent(app[last.app], last.config, "head")) :
       builtin # << >>
  /\ last.content =
       Lines(BuiltinContent(app[last.app], last.config, "head"))
       \o <<"\n", "P", ":", "head", "\n", "Q", ":", "head">>

\* the source a tree of the final assembly is
SourceOf(tree) ==
  CASE tree.op = "index" -> "index"
    [] tree.op \in {"vendorAndApp", "uglifyJavaScript"} -> "javascript"
    [] tree.op = "styles" -> "styles"
    [] tree.op = "TreeMerger (otherAssetTrees)" -> "otherAssets"
    [] tree.op = "publicTree" -> "publicTree"
    [] tree.op = "testIndex" -> "testIndex"
    [] tree.op = "TreeMerger (testFiles)" -> "testFiles"
    [] OTHER -> "none"

\* the sources of the final assembly, in the order of the merge
SourcesInOrder == <<"index", "javascript", "styles", "otherAssets", "publicTree",
                    "testIndex", "testFiles">>

\* C9: toTree merges the index document, the script bundle, the style
\* bundle, the other assets and the public tree, in this order, and then the
\* test index document and the test bundle if and only if the tests flag is
\* set (trees the caller hands to toTree follow the sources); the merged
\* tree goes through the 'all' stage of postprocessTree and toTree returns
\* the result of that stage
C9_ToTreeMergeOrder ==
  last.op = "toTree" =>
    LET inputs == last.merged.inputs
        n      == IF last.before.tests THEN 7 ELSE 5
        calls  == last.calls
    IN  /\ Len(inputs) = n + Len(last.additionalTrees)
        /\ [k \in 1..n |-> SourceOf(inputs[k])] = SubSeq(SourcesInOrder, 1, n)
        /\ SubSeq(inputs, n + 1, Len(inputs)) = last.additionalTrees
        /\ last.merged.op = "TreeMerger (allTrees)"
        /\ \A k \in DOMAIN calls : calls[k].stage = "all"
        /\ calls # << >> => calls[1].tree = last.merged
        /\ last.tree = IF calls = << >> THEN last.merged
                       ELSE calls[Len(calls)].returned

\* C9 witness: toTree of an app with the tests flag set has merged the seven
\* sources and its result comes from the 'all' stage of an addon
C9_Witness ==
  /\ last.op = "toTree"
  /\ last.before.tests
  /\ Len(last.merged.inputs) = 7
  /\ SourceOf(last.merged.inputs[6]) = "testIndex"
  /\ last.calls # << >>
  /\ last.tree.op = "postprocessTree"
  /\ last.tree.stage = "all"

\* C10: addonPostprocessTree calls the postprocessTree hook of each addon
\* of the list that has one, in the order of the list and for the given
\* stage; the first call receives the input tree, every other call the tree
\* the call before returned; the result is the tree the last call returned,
\* and the input tree itself when no addon has the hook
C10_PostprocessThreadsTree ==
  last.op = "addonPostprocessTree" =>
    LET hooked == SelectSeq(last.addons, LAMBDA x :
                    AddonDef(x).postprocessTree # "none")
        calls  == last.calls
    IN  /\ [k \in DOMAIN calls |-> calls[k].addon] = hooked
        /\ \A k \in DOMAIN calls :
             /\ calls[k].stage = last.stage
             /\ calls[k].tree = IF k = 1 THEN last.input ELSE calls[k - 1].returned
        /\ last.tree = IF calls = << >> THEN last.input
                       ELSE calls[Len(calls)].returned

\* C10 witness: three addons with the hook were called one after the other,
\* the third received what the second returned, and the result is not the
\* input tree
C10_Witness ==
  /\ last.op = "addonPostprocessTree"
  /\ Len(last.calls) = 3
  /\ last.calls[1].tree = last.input
  /\ last.calls[3].tree = last.calls[2].returned
  /\ last.calls[1].returned # last.input
  /\ last.tree = last.calls[3].returned
  /\ last.tree # last.input

\* C11: addonTreesFor returns the trees that the treeFor hooks of the
\* addons of the list return for the type, one entry per addon that returned
\* a tree, in the order of the list; an addon without the hook, or whose hook
\* returns nothing, has no entry
C11_AddonTreesInListOrder ==
  last.op = "addonTreesFor" =>
    LET contributing == SelectSeq(last.addons, LAMBDA x : AddonDef(x).treeFor = "tree")
    IN  /\ Len(last.trees) = Len(contributing)
        /\ \A k \in DOMAIN last.trees :
             /\ IsTree(last.trees[k])
             /\ last.trees[k].op = "treeFor"
             /\ last.trees[k].addon = contributing[k]
             /\ last.trees[k].for = last.for

\* C11 witness: the list holds an addon whose treeFor returns nothing and
\* one without the hook between two addons that return a tree; the result
\* holds the two trees, in the order of the list
C11_Witness ==
  /\ last.op = "addonTreesFor"
  /\ last.addons = <<<<1, 1>>, <<1, 3>>, <<1, 4>>, <<1, 5>>, <<1, 6>>>>
  /\ Len(last.trees) = 2
  /\ last.trees[1].addon = <<1, 1>>
  /\ last.trees[2].addon = <<1, 5>>

\* the trees the enabled addons of an app contribute, as the slots of the
\* addons in the order of the list
Contributing(i) ==
  LET addons == Addons(i)
      RECURSIVE From(_)
      From(k) == IF k > Len(addons) THEN << >>
                 ELSE (IF AddonDef(addons[k]).treeFor = "tree"
                       THEN <<addons[k][2]>> ELSE << >>) \o From(k + 1)
  IN  From(1)

\* the tree of the app a merge method puts last in its merge
OwnTree(i, method) ==
  CASE method = "_processedTemplatesTree" -> app[i].trees.templates
    [] method = "_processedTestsTree"     -> app[i].trees.tests
    [] method = "_processedVendorTree"    -> app[i].trees.vendor
    [] method = "publicTree"              -> app[i].trees.public
    [] OTHER                              -> app[i].trees.app

\* C12: in the overwrite merges of the application, templates, tests, vendor
\* and public trees the later source wins: a path an addon tree and the tree
\* of the app both provide resolves to the file of the app, a path two addons
\* provide resolves to the file of the addon registered later, and every
\* construction of the merge gives the same mapping from paths to sources
C12_LaterSourceWins ==
  last.op \in MergeMethods =>
    LET files == Files(MergeOf(last.op, last.tree))
        slots == Contributing(last.app)
    IN  /\ IsTree(OwnTree(last.app, last.op)) =>
             /\ {"shared", "own"} \subseteq DOMAIN files
             /\ files["shared"] = 0
             /\ files["own"] = 0
        /\ slots # << >> =>
             /\ "addons" \in DOMAIN files
             /\ files["addons"] = slots[Len(slots)]
        /\ hist[last.app].winners[last.op] = {files}

C12_Witness ==
  /\ last.op = "publicTree"
  /\ hist[last.app].calls = 2
  /\ hist[last.app].winners["publicTree"] # {}
  /\ \A m \in MergeMethods \ {"publicTree"} : hist[last.app].winners[m] = {}
  /\ IsTree(OwnTree(last.app, "publicTree"))
  /\ Len(Contributing(last.app)) >= 2
  /\ Files(last.tree)["shared"] = 0
  /\ Files(last.tree)["addons"] = Contributing(last.app)[Len(Contributing(last.app))]

\* C13: building the graph has no side effect: toTree changes none of the
\* options of the app (options.fingerprint.exclude and the options of
\* minifyJS and minifyCSS among them) and none of its asset and import lists
C13_ToTreeChangesNothing ==
  last.op = "toTree" =>
    /\ app[last.app].options = last.before.options
    /\ \A l \in AssetLists : app[last.app][l] = last.before[l]
    /\ app[last.app]._importTrees = last.before._importTrees

\* the start of a path, as the characters of a word
StartsWith(path, word) ==
  Len(Text(path)) >= Len(Spell(word))
  /\ SubSeq(Text(path), 1, Len(Spell(word))) = Spell(word)

\* a path whose end is 'template', one character and a template extension
IsPodTemplate(path) ==
  \E extension \in {"hbs", "handlebars"}, k \in 0..Len(Text(path)) :
    /\ k + 9 + Len(Spell(extension)) = Len(Text(path))
    /\ SubSeq(Text(path), k + 1, k + 8) = Spell("template")
    /\ SubSeq(Text(path), k + 10, Len(Text(path))) = Spell(extension)

\* C14: a path of the app directory is in the filtered app tree exactly when
\* it matches no pod-template pattern and starts with neither 'styles' nor
\* 'templates'; it is in the pod-templates funnel exactly when it matches a
\* pod-template pattern and does not start with 'templates' (the exclusion
\* wins over the inclusion); no path is in both
C14_FunnelsPartitionAppPaths ==
  last.op = "funnels" =>
    /\ last.filtered <=> ( /\ ~IsPodTemplate(last.path)
                          /\ ~StartsWith(last.path, "styles")
                          /\ ~StartsWith(last.path, "templates") )
    /\ last.podTemplates <=> ( /\ IsPodTemplate(last.path)
                              /\ ~StartsWith(last.path, "templates") )
    /\ ~(last.filtered /\ last.podTemplates)

C14_Witness ==
  /\ last.op = "funnels"
  /\ last.path = <<"template", "s", "/", "template", ".", "hbs">>
  /\ ~last.filtered
  /\ ~last.podTemplates

\* C15: a call of import that ends with an error (a glob pattern, a path
\* without extension, an unrecognized type) leaves the app as it was: the
\* four lists of scripts and stylesheets, otherAssetPaths and _importTrees
\* are the ones before the call
C15_FailedImportChangesNothing ==
  (last.op = "import" /\ last.outcome = "throw") =>
    /\ \A l \in AssetLists : app[last.app][l] = last.before[l]
    /\ app[last.app]._importTrees = last.before._importTrees

\* C16: _importTrees holds at most one import tree for each asset directory,
\* whatever imports were made: importing a second asset of a directory adds
\* no further tree
C16_OneImportTreePerDirectory ==
  \A i \in Constructed :
    \A k, l \in DOMAIN app[i]._importTrees :
      app[i]._importTrees[k].input = app[i]._importTrees[l].input => k = l

====
